---- MODULE Spec2Model ----
(***************************************************************************)
(* Teahouse archival bot (scripts/teahouse-archival-bot.py): the archival  *)
(* correlation functions safe_list_diff, list_matching,                    *)
(* search_archives_for_section, isnotifiable and their orchestration in    *)
(* generate_notification_list, and the delivery loop notify_all / notify.   *)
(*                                                                         *)
(* A title is a sequence of one-character strings, so that str.strip() is  *)
(* computed and not assumed.  The empty Python string '' is <<>>.          *)
(***************************************************************************)
EXTENDS Integers, Sequences, FiniteSets, TLC

\* ------------------------------------------------------------------ bounds
MaxBefore == 3      \* sections on the page before the archival edit
MaxAfter == 2       \* sections on the page after the archival edit
MaxRemoved == 2     \* removed titles handed to list_matching
MaxCreated == 3     \* creation records handed to list_matching
MaxLinks == 2       \* archive links named by the archival edit summary
MaxSections == 2    \* sections on one archive page
MaxNames == 2       \* section names handed to search_archives_for_section
RunBefore == 2      \* sections before the edit, in a whole run
RunAfter == 1       \* sections after the edit, in a whole run
RunCreated == 2     \* creation records in the page history, in a whole run
RunLinks == 1       \* archive links named by the edit summary, in a whole run
RunSections == 2    \* sections on one archive page, in a whole run
RunRevs == 2        \* revisions in the lookup window of last_archival_edit
RunPageSize == 1    \* revisions in a result page of the API, in a whole run
RunPages == 2       \* result pages of the page history of newsections_at_teahouse
MaxNotifs == 2      \* records in the list handed to notify_all
MaxRevs == 3        \* revisions between the two timestamps
MaxPages == 3       \* result pages the API serves them in
MaxContinue == 2    \* maxcontinuenumber handed to get_revisions_from_api

\* ---------------------------------------------------------------- universe
\* Section titles: "a", " a " (blanks around it) and "b".
Titles == { <<"a">>, <<" ", "a", " ">>, <<"b">> }
\* Headings found on the archive pages: " a " (which matches the titles "a"
\* and " a " once both sides are trimmed) and "b".
ArchiveLines == { <<" ", "a", " ">>, <<"b">> }
Users == { "u1", "u2" }
Pages == { "Archive_1", "Archive_2" }

\* ----------------------------------------------------------------- helpers
SeqToSet(s) == { s[i] : i \in 1..Len(s) }

SeqsUpTo(S, n) == UNION { [1..k -> S] : k \in 0..n }

Count(s, x) == Cardinality({ i \in 1..Len(s) : s[i] = x })

\* str.strip(): drop leading and trailing whitespace
IsSpace(c) == c = " "

RECURSIVE LStrip(_)
LStrip(s) == IF s # <<>> /\ IsSpace(Head(s)) THEN LStrip(Tail(s)) ELSE s

RECURSIVE RStrip(_)
RStrip(s) ==
    IF s # <<>> /\ IsSpace(s[Len(s)]) THEN RStrip(SubSeq(s, 1, Len(s) - 1)) ELSE s

Strip(s) == RStrip(LStrip(s))

\* keys of collections.Counter(list), in insertion (first occurrence) order
RECURSIVE CounterKeys(_)
CounterKeys(s) ==
    IF s = <<>> THEN <<>>
    ELSE LET r == CounterKeys(SubSeq(s, 1, Len(s) - 1))
             x == s[Len(s)]
         IN  IF x \in SeqToSet(r) THEN r ELSE Append(r, x)

\* ---------------------------------------------------------------- api_call
\* what api_call returns: the decoded answer, or None when the request gave
\* no useful response (lines 84-91)
None == [ answered |-> FALSE ]

Response(json) == [ answered |-> TRUE, json |-> json ]

\* a request sent to the API: the list or property queried and its subject
api_request(kind, about) == [ kind |-> kind, about |-> about ]

\* position of the first request left without response, 0 if there is none
FirstNone(responses) ==
    IF \A i \in 1..Len(responses) : responses[i].answered THEN 0
    ELSE CHOOSE i \in 1..Len(responses) :
            /\ ~responses[i].answered
            /\ \A j \in 1..(i - 1) : responses[j].answered

\* the requests a sequence of api_call callers gets to send: each caller
\* subscripts the answer at once, so the first None ends the sequence
api_calls(requests, responses) ==
    LET k == FirstNone(responses)
        n == IF k = 0 THEN Len(requests) ELSE k
    IN  [ i \in 1..n |-> [ kind |-> requests[i].kind,
                          about |-> requests[i].about,
                          answered |-> responses[i].answered ] ]

\* api_call_result[...][...] in a caller: None is not subscriptable
Subscript(api_call_result) ==
    IF ~api_call_result.answered
    THEN [ raised |-> "TypeError", value |-> <<>> ]
    ELSE [ raised |-> "", value |-> api_call_result.json ]

\* mutant: no response read as a page without sections
get_sections_from_api_lenient(api_call_result) ==
    IF ~api_call_result.answered
    THEN [ raised |-> "", value |-> <<>> ]
    ELSE Subscript(api_call_result)

\* get_sections_from_api: api_call_result['parse']['sections']
get_sections_from_api(api_call_result) == Subscript(api_call_result)

\* traverse_list_of_sections: the 'line' of every section
traverse_list_of_sections(inputlistofdict) ==
    [ i \in 1..Len(inputlistofdict) |-> inputlistofdict[i].line ]

\* --------------------------------------------------- get_revisions_from_api
\* The API serves the revisions between the two timestamps, newest first, in
\* result pages.  What it holds is history: the result pages in order
\* (pages), whether the last page is marked complete or the API goes on
\* serving it with a continuation (endless), and the requests, counted from
\* the first, that get no response (unanswered).
NoContinue == 0     \* continuestring=None: no rvcontinue in the request

\* get_revisions_from_api has not been called
NoHistory == [ pages |-> << <<>> >>, endless |-> FALSE, unanswered |-> {} ]

NoId == 0           \* no revision id

\* the answer to the request that carries rvcontinue = continuestring: the
\* result page asked for, 'batchcomplete' on the last one, else the
\* continuation of the next page
api_revisions(history, continuestring) ==
    LET k == IF continuestring = NoContinue THEN 1 ELSE continuestring
        last == k = Len(history.pages)
    IN  [ revisions |-> history.pages[k],
          batchcomplete |-> last /\ ~history.endless,
          rvcontinue |-> IF last THEN k ELSE k + 1 ]

\* mutant: one continuation more than maxcontinuenumber allows
RECURSIVE get_revisions_from_api_nobudget(_, _, _, _)
get_revisions_from_api_nobudget(history, nth, maxcontinuenumber, continuestring) ==
    LET request == api_request("revisions", continuestring)
        api_call_result == IF nth \in history.unanswered THEN None
                           ELSE Response(api_revisions(history, continuestring))
        tmp == Subscript(api_call_result)
        revlist == tmp.value.revisions
        rcl == get_revisions_from_api_nobudget(history, nth + 1,
                                               maxcontinuenumber - 1,
                                               tmp.value.rvcontinue)
    IN  IF tmp.raised # ""
        THEN [ raised |-> tmp.raised, value |-> <<>>,
               calls |-> api_calls(<< request >>, << api_call_result >>) ]
        ELSE IF maxcontinuenumber >= 0 /\ ~tmp.value.batchcomplete
        THEN [ raised |-> rcl.raised,
               value |-> IF rcl.raised = "" THEN revlist \o rcl.value ELSE <<>>,
               calls |-> api_calls(<< request >>, << api_call_result >>) \o rcl.calls ]
        ELSE [ raised |-> "", value |-> revlist,
               calls |-> api_calls(<< request >>, << api_call_result >>) ]

\* mutant: the revisions of the continuation put in front (rcl + revlist)
RECURSIVE get_revisions_from_api_olderfirst(_, _, _, _)
get_revisions_from_api_olderfirst(history, nth, maxcontinuenumber, continuestring) ==
    LET request == api_request("revisions", continuestring)
        api_call_result == IF nth \in history.unanswered THEN None
                           ELSE Response(api_revisions(history, continuestring))
        tmp == Subscript(api_call_result)
        revlist == tmp.value.revisions
        rcl == get_revisions_from_api_olderfirst(history, nth + 1,
                                                 maxcontinuenumber - 1,
                                                 tmp.value.rvcontinue)
    IN  IF tmp.raised # ""
        THEN [ raised |-> tmp.raised, value |-> <<>>,
               calls |-> api_calls(<< request >>, << api_call_result >>) ]
        ELSE IF maxcontinuenumber > 0 /\ ~tmp.value.batchcomplete
        THEN [ raised |-> rcl.raised,
               value |-> IF rcl.raised = "" THEN rcl.value \o revlist ELSE <<>>,
               calls |-> api_calls(<< request >>, << api_call_result >>) \o rcl.calls ]
        ELSE [ raised |-> "", value |-> revlist,
               calls |-> api_calls(<< request >>, << api_call_result >>) ]

\* one call (the nth request of the pull) and the calls it makes of itself:
\* the exception raised if any, the list returned, the requests sent
RECURSIVE get_revisions_from_api(_, _, _, _)
get_revisions_from_api(history, nth, maxcontinuenumber, continuestring) ==
    LET request == api_request("revisions", continuestring)
        api_call_result == IF nth \in history.unanswered THEN None
                           ELSE Response(api_revisions(history, continuestring))
        tmp == Subscript(api_call_result)
        revlist == tmp.value.revisions
        rcl == get_revisions_from_api(history, nth + 1, maxcontinuenumber - 1,
                                      tmp.value.rvcontinue)
    IN  IF tmp.raised # ""
        THEN [ raised |-> tmp.raised, value |-> <<>>,
               calls |-> api_calls(<< request >>, << api_call_result >>) ]
        ELSE IF maxcontinuenumber > 0 /\ ~tmp.value.batchcomplete
        THEN [ raised |-> rcl.raised,
               value |-> IF rcl.raised = "" THEN revlist \o rcl.value ELSE <<>>,
               calls |-> api_calls(<< request >>, << api_call_result >>) \o rcl.calls ]
        ELSE [ raised |-> "", value |-> revlist,
               calls |-> api_calls(<< request >>, << api_call_result >>) ]

\* revisions_since_x_days: the pull starts without continuation
revisions_since_x_days(history, maxcontinuenumber) ==
    get_revisions_from_api(history, 1, maxcontinuenumber, NoContinue)

\* ------------------------------------------------------ last_archival_edit
archiver == "Lowercase sigmabot III"

\* an edit summary is a sequence of tokens: a run of plain text << text >>
\* or a wikilink << "[[", target, "]]" >>
IsWikilink(tok) == Len(tok) = 3 /\ tok[1] = "[[" /\ tok[3] = "]]"

\* re.findall(r'(\[\[.*?\]\])', es)
findall_wikilinks(es) == SelectSeq(es, IsWikilink)

\* [l[2:-2] for l in links]
strippedlinks(wikilinks) == [ i \in 1..Len(wikilinks) |-> wikilinks[i][2] ]

\* what last_archival_edit gives when it raises
NoArchivalEdit ==
    [ raised |-> "ValueError", after |-> NoId, before |-> NoId, links |-> <<>> ]

\* output = {'after': rev['revid'], 'before': rev['parentid'],
\*           'links': strippedlinks, ...}
archival_edit(rev) ==
    [ raised |-> "",
      after |-> rev.revid,
      before |-> rev.parentid,
      links |-> strippedlinks(findall_wikilinks(rev.comment)) ]

\* mutant: without an edit of the archiver, the most recent edit is taken
last_archival_edit_anyuser(rev_table) ==
    LET byarchiver == { i \in 1..Len(rev_table) : rev_table[i].user = archiver }
        first == IF byarchiver = {} THEN 1
                 ELSE CHOOSE i \in byarchiver : \A j \in byarchiver : i <= j
        wikilinks == findall_wikilinks(rev_table[first].comment)
    IN  IF rev_table = <<>> THEN NoArchivalEdit
        ELSE IF wikilinks = <<>> THEN NoArchivalEdit
        ELSE archival_edit(rev_table[first])

\* mutant: the loop goes on to the oldest edit of the archiver
last_archival_edit_oldest(rev_table) ==
    LET byarchiver == { i \in 1..Len(rev_table) : rev_table[i].user = archiver }
        oldest == CHOOSE i \in byarchiver : \A j \in byarchiver : j <= i
        wikilinks == findall_wikilinks(rev_table[oldest].comment)
    IN  IF byarchiver = {} THEN NoArchivalEdit
        ELSE IF wikilinks = <<>> THEN NoArchivalEdit
        ELSE archival_edit(rev_table[oldest])

\* the loop over rev_table stops at the first (most recent) edit of the
\* archiver
last_archival_edit(rev_table) ==
    LET byarchiver == { i \in 1..Len(rev_table) : rev_table[i].user = archiver }
        first == CHOOSE i \in byarchiver : \A j \in byarchiver : i <= j
        wikilinks == findall_wikilinks(rev_table[first].comment)
    IN  IF byarchiver = {} THEN NoArchivalEdit
        ELSE IF wikilinks = <<>> THEN NoArchivalEdit
        ELSE archival_edit(rev_table[first])

\* ---------------------------------------------------- es_created_newsection
\* the text of a sequence of tokens, one after the other
RECURSIVE Flatten(_)
Flatten(tokens) ==
    IF tokens = <<>> THEN <<>> ELSE Head(tokens) \o Flatten(Tail(tokens))

Opening == << "/* " >>              \* the token '/* '
Closing == << " */ new section" >>  \* the token ' */ new section'

\* pattern.match with (\/\* )(.*)( \*\/ new section): the summary starts with
\* '/* ', and the greedy (.*) runs up to the last ' */ new section'
es_created_newsection(editsummary) ==
    LET closings == { i \in 2..Len(editsummary) : editsummary[i] = Closing }
        last == CHOOSE i \in closings : \A j \in closings : j <= i
    IN  IF editsummary # <<>> /\ Head(editsummary) = Opening /\ closings # {}
        THEN [ flag |-> TRUE, name |-> Flatten(SubSeq(editsummary, 2, last - 1)) ]
        ELSE [ flag |-> FALSE, name |-> <<>> ]

\* mutant: pattern.search, the pattern found anywhere in the summary
es_created_newsection_search(editsummary) ==
    LET openings == { i \in 1..Len(editsummary) : editsummary[i] = Opening }
        first == CHOOSE i \in openings : \A j \in openings : i <= j
        closings == { i \in (first + 1)..Len(editsummary) : editsummary[i] = Closing }
        last == CHOOSE i \in closings : \A j \in closings : j <= i
    IN  IF openings # {} /\ closings # {}
        THEN [ flag |-> TRUE,
               name |-> Flatten(SubSeq(editsummary, first + 1, last - 1)) ]
        ELSE [ flag |-> FALSE, name |-> <<>> ]

\* -------------------------------------------------- newsections_at_teahouse
maxpagestopull == 5

\* mutant: the summary searched for the pattern, not matched at its start
newsections_at_teahouse_search(rev_table) ==
    LET created(rev) == es_created_newsection_search(rev.comment).flag
        kept == SelectSeq(rev_table, created)
    IN  [ i \in 1..Len(kept) |->
            [ revid |-> kept[i].revid,
              name |-> es_created_newsection_search(kept[i].comment).name,
              user |-> kept[i].user ] ]

\* the loop of lines 774-782 over rev_table
newsections_at_teahouse(rev_table) ==
    LET created(rev) == es_created_newsection(rev.comment).flag
        kept == SelectSeq(rev_table, created)
    IN  [ i \in 1..Len(kept) |->
            [ revid |-> kept[i].revid,
              name |-> es_created_newsection(kept[i].comment).name,
              user |-> kept[i].user ] ]

\* ---------------------------------------------------------- safe_list_diff
\* mutant: the operands of the set difference swapped
DiffAssertFails_swapped(listbefore, listafter) ==
    SeqToSet(listbefore) \ SeqToSet(listafter) # {}

\* assert(not bool(setafter - setbefore)) fails
DiffAssertFails(listbefore, listafter) ==
    SeqToSet(listafter) \ SeqToSet(listbefore) # {}

duplicate_values(listbefore) ==
    LET keys == CounterKeys(listbefore)
        dup(k) == Count(listbefore, k) > 1
    IN  SelectSeq(keys, dup)

\* mutant: a plain set difference, duplicates not taken out
set_to_return_plain(listbefore, listafter) ==
    SeqToSet(listbefore) \ SeqToSet(listafter)

\* mutant: titles compared after strip()
set_to_return_trimmed(listbefore, listafter) ==
    { t \in SeqToSet(listbefore) :
        Strip(t) \notin { Strip(a) : a \in SeqToSet(listafter) } }
        \ SeqToSet(duplicate_values(listbefore))

set_to_return(listbefore, listafter) ==
    (SeqToSet(listbefore) \ SeqToSet(listafter))
        \ SeqToSet(duplicate_values(listbefore))

\* mutant: the kept titles collected back to front
final_list_reversed(listbefore, listafter) ==
    LET keep(tn) == tn \in set_to_return(listbefore, listafter)
        r == SelectSeq(listbefore, keep)
    IN  [ i \in 1..Len(r) |-> r[Len(r) + 1 - i] ]

final_list(listbefore, listafter) ==
    LET keep(tn) == tn \in set_to_return(listbefore, listafter)
    IN  SelectSeq(listbefore, keep)

\* one logging.warning per duplicated value
DiffWarnings(listbefore) ==
    LET d == duplicate_values(listbefore)
    IN  [ i \in 1..Len(d) |-> [ kind |-> "duplicate", name |-> d[i] ] ]

\* mutant: a duplicated title in listbefore is an error
safe_list_diff_strict(listbefore, listafter) ==
    IF DiffAssertFails(listbefore, listafter)
    THEN [ raised |-> "AssertionError", value |-> <<>>, warnings |-> <<>> ]
    ELSE IF duplicate_values(listbefore) # <<>>
    THEN [ raised |-> "ValueError", value |-> <<>>, warnings |-> <<>> ]
    ELSE [ raised |-> "",
           value |-> final_list(listbefore, listafter),
           warnings |-> <<>> ]

\* result of one call: raised, or the returned list and the warnings logged
safe_list_diff(listbefore, listafter) ==
    IF DiffAssertFails(listbefore, listafter)
    THEN [ raised |-> "AssertionError", value |-> <<>>, warnings |-> <<>> ]
    ELSE [ raised |-> "",
           value |-> final_list(listbefore, listafter),
           warnings |-> DiffWarnings(listbefore) ]

\* ----------------------------------------------------------- list_matching
\* a creation record of newsections_at_teahouse: revid, name, user
\* mutant: the name of the creation record compared untrimmed
matching_indices_exact(threadscreated, cur_str) ==
    { j \in 1..Len(threadscreated) : threadscreated[j].name = cur_str }

matching_indices(threadscreated, cur_str) ==
    { j \in 1..Len(threadscreated) : Strip(threadscreated[j].name) = cur_str }

\* mutant: every matching record emitted when there are several
list_matching_step_all(acc, title, threadscreated) ==
    LET cur_str == Strip(title)
        mi == matching_indices(threadscreated, cur_str)
        hit(rec) == Strip(rec.name) = cur_str
    IN  IF Cardinality(mi) >= 1
        THEN [ output |-> acc.output \o SelectSeq(threadscreated, hit),
               warnings |-> acc.warnings ]
        ELSE [ output |-> acc.output,
               warnings |-> Append(acc.warnings,
                                   [ kind |-> "nomatch", name |-> cur_str ]) ]

\* mutant: the matched record put in front of the output
list_matching_step_prepend(acc, title, threadscreated) ==
    LET cur_str == Strip(title)
        mi == matching_indices(threadscreated, cur_str)
    IN  IF Cardinality(mi) = 1
        THEN [ output |-> << threadscreated[CHOOSE j \in mi : TRUE] >> \o acc.output,
               warnings |-> acc.warnings ]
        ELSE IF Cardinality(mi) = 0
        THEN [ output |-> acc.output,
               warnings |-> Append(acc.warnings,
                                   [ kind |-> "nomatch", name |-> cur_str ]) ]
        ELSE [ output |-> acc.output,
               warnings |-> Append(acc.warnings,
                                   [ kind |-> "multimatch", name |-> cur_str ]) ]

\* one pass of the loop body over ta[i]
list_matching_step(acc, title, threadscreated) ==
    LET cur_str == Strip(title)
        mi == matching_indices(threadscreated, cur_str)
    IN  IF Cardinality(mi) = 1
        THEN [ output |-> Append(acc.output, threadscreated[CHOOSE j \in mi : TRUE]),
               warnings |-> acc.warnings ]
        ELSE IF Cardinality(mi) = 0
        THEN [ output |-> acc.output,
               warnings |-> Append(acc.warnings,
                                   [ kind |-> "nomatch", name |-> cur_str ]) ]
        ELSE [ output |-> acc.output,
               warnings |-> Append(acc.warnings,
                                   [ kind |-> "multimatch", name |-> cur_str ]) ]

RECURSIVE list_matching(_, _)
list_matching(ta, threadscreated) ==
    IF ta = <<>> THEN [ output |-> <<>>, warnings |-> <<>> ]
    ELSE list_matching_step(list_matching(SubSeq(ta, 1, Len(ta) - 1), threadscreated),
                            ta[Len(ta)], threadscreated)

\* ----------------------------------------------------- find_section_anchor
\* a section of get_sections_from_api: line (the title) and anchor
find_section_anchor(inputlistofdict, sectionname) ==
    LET hit(item) == Strip(sectionname) = Strip(item.line)
        items == SelectSeq(inputlistofdict, hit)
    IN  [ i \in 1..Len(items) |-> items[i].anchor ]

\* --------------------------------------------- search_archives_for_section
\* lines 551-554: one get_sections_from_api per entry of links_to_search, the
\* answers kept in a dict keyed by the link; the loop ends at the first
\* entry whose request raises
fetch_archives(links_to_search, responses) ==
    LET failing == { i \in 1..Len(links_to_search) :
                       get_sections_from_api(responses[i]).raised # "" }
        stop == IF failing = {} THEN Len(links_to_search) + 1
                ELSE CHOOSE i \in failing : \A j \in failing : i <= j
        latest(p) == CHOOSE i \in 1..(stop - 1) :
                        /\ links_to_search[i] = p
                        /\ \A j \in (i + 1)..(stop - 1) : links_to_search[j] # p
    IN  [ raised |-> IF failing = {} THEN ""
                     ELSE get_sections_from_api(responses[stop]).raised,
          archive_contents |->
              [ p \in { links_to_search[i] : i \in 1..(stop - 1) } |->
                  get_sections_from_api(responses[latest(p)]).value ] ]

\* the requests of the loop of lines 551-554
fetch_requests(links_to_search) ==
    [ i \in 1..Len(links_to_search) |-> api_request("sections", links_to_search[i]) ]

NoLink == <<>>      \* the empty string: no archive link found
Unbound == "?"      \* candidatelink before its first assignment

\* candidatelink + "#" + matches[0]
FullArchiveLink(candidatelink, anchor) == << candidatelink, "#", anchor >>

\* matches += linkmatches, over the first n links
RECURSIVE matches_upto(_, _, _, _)
matches_upto(links_to_search, archive_contents, sn, n) ==
    IF n = 0 THEN <<>>
    ELSE matches_upto(links_to_search, archive_contents, sn, n - 1)
             \o find_section_anchor(archive_contents[links_to_search[n]], sn)

\* mutant: candidatelink assigned at every pass of the inner loop, match or
\* not, so that it ends as the last link searched
search_links_lastlink(links_to_search, archive_contents, sn, candidatelink) ==
    [ candidatelink |-> IF links_to_search # <<>>
                        THEN links_to_search[Len(links_to_search)]
                        ELSE candidatelink,
      matches |-> matches_upto(links_to_search, archive_contents, sn,
                               Len(links_to_search)) ]

\* the inner loop over links_to_search for one section name; candidatelink
\* is a local of the function: it keeps the last link that had a match, also
\* from one section name to the next
search_links(links_to_search, archive_contents, sn, candidatelink) ==
    LET found == { k \in 1..Len(links_to_search) :
                     find_section_anchor(archive_contents[links_to_search[k]], sn)
                       # <<>> }
        last == CHOOSE k \in found : \A j \in found : j <= k
    IN  [ candidatelink |-> IF found # {} THEN links_to_search[last]
                            ELSE candidatelink,
          matches |-> matches_upto(links_to_search, archive_contents, sn,
                                   Len(links_to_search)) ]

\* mutant: the first match accepted when there are several
search_step_first(acc, links_to_search, archive_contents, sn) ==
    LET r == search_links(links_to_search, archive_contents, sn, acc.candidatelink)
    IN  IF Len(r.matches) >= 1
        THEN [ candidatelink |-> r.candidatelink,
               out_links |-> Append(acc.out_links,
                                    FullArchiveLink(r.candidatelink, r.matches[1])),
               warnings |-> acc.warnings ]
        ELSE [ candidatelink |-> r.candidatelink,
               out_links |-> Append(acc.out_links, NoLink),
               warnings |-> Append(acc.warnings,
                                   [ kind |-> "nothread", name |-> sn ]) ]

\* mutant: nothing appended for a title without a unique match
search_step_skip(acc, links_to_search, archive_contents, sn) ==
    LET r == search_links(links_to_search, archive_contents, sn, acc.candidatelink)
    IN  IF Len(r.matches) = 1
        THEN [ candidatelink |-> r.candidatelink,
               out_links |-> Append(acc.out_links,
                                    FullArchiveLink(r.candidatelink, r.matches[1])),
               warnings |-> acc.warnings ]
        ELSE [ candidatelink |-> r.candidatelink,
               out_links |-> acc.out_links,
               warnings |-> Append(acc.warnings,
                   [ kind |-> IF Len(r.matches) = 0 THEN "nothread"
                              ELSE "multithread",
                     name |-> sn ]) ]

\* one pass of the outer loop body
search_step(acc, links_to_search, archive_contents, sn) ==
    LET r == search_links(links_to_search, archive_contents, sn, acc.candidatelink)
    IN  IF Len(r.matches) = 1
        THEN [ candidatelink |-> r.candidatelink,
               out_links |-> Append(acc.out_links,
                                    FullArchiveLink(r.candidatelink, r.matches[1])),
               warnings |-> acc.warnings ]
        ELSE [ candidatelink |-> r.candidatelink,
               out_links |-> Append(acc.out_links, NoLink),
               warnings |-> Append(acc.warnings,
                   [ kind |-> IF Len(r.matches) = 0 THEN "nothread"
                              ELSE "multithread",
                     name |-> sn ]) ]

\* mutant: the section names searched from the last to the first
RECURSIVE search_names_reversed(_, _, _, _, _)
search_names_reversed(links_to_search, archive_contents, sectionnames, i, acc) ==
    IF i > Len(sectionnames) THEN acc
    ELSE search_names_reversed(links_to_search, archive_contents, sectionnames, i + 1,
                               search_step(acc, links_to_search, archive_contents,
                                           sectionnames[Len(sectionnames) + 1 - i]))

\* the outer loop, from the i-th section name on
RECURSIVE search_names(_, _, _, _, _)
search_names(links_to_search, archive_contents, sectionnames, i, acc) ==
    IF i > Len(sectionnames) THEN acc
    ELSE search_names(links_to_search, archive_contents, sectionnames, i + 1,
                      search_step(acc, links_to_search, archive_contents,
                                  sectionnames[i]))

search_archives_for_section(links_to_search, archive_contents, sectionnames) ==
    search_names(links_to_search, archive_contents, sectionnames, 1,
                 [ candidatelink |-> Unbound, out_links |-> <<>>, warnings |-> <<>> ])

\* ------------------------------------------------------------ isnotifiable
\* resultlist of the blocks query: a set of entries {'user': name}
get_block_info(userlist, resultlist) ==
    [ u \in SeqToSet(userlist) |-> [ user |-> u ] \in resultlist ]

\* mutant: IP addresses ('invalid' entries) are not notified either
notification_policy_noip(info, blocked) ==
    IF "missing" \in info THEN FALSE
    ELSE IF blocked THEN FALSE
    ELSE IF "invalid" \in info THEN FALSE
    ELSE TRUE

\* the policy applied to one user: info is the set of keys of userinfo[u]
notification_policy(info, blocked) ==
    IF "missing" \in info THEN FALSE
    ELSE IF blocked THEN FALSE
    ELSE TRUE

\* mutant: the block status asked of the users list, no blocks lookup
isnotifiable_requests_usersonly(users) ==
    << api_request("users", users), api_request("users", users) >>

\* lines 377 and 382: get_block_info(users), then get_user_info(users, ...)
isnotifiable_requests(users) ==
    << api_request("blocks", users), api_request("users", users) >>

isnotifiable(users, resultlist, userinfo) ==
    LET isblocked == get_block_info(users, resultlist)
    IN  [ u \in SeqToSet(users) |-> notification_policy(userinfo[u], isblocked[u]) ]

\* ---------------------------------------------- generate_notification_list
thread_matched_names(thread_matched) ==
    [ i \in 1..Len(thread_matched) |-> thread_matched[i].name ]

thread_matched_users(thread_matched) ==
    [ i \in 1..Len(thread_matched) |-> thread_matched[i].user ]

\* the dict built by one pass of the loop; a key that was never assigned is
\* absent from the domain
notif_base(username, tn) ==
    [ k \in {"user", "thread", "invalid"} |->
        IF k = "user" THEN username ELSE IF k = "thread" THEN tn ELSE FALSE ]

\* mutant: the record flagged invalid without a reason
notif_link_noreason(notif, al) ==
    IF al # NoLink
    THEN ("archivelink" :> al) @@ notif
    ELSE ("invalid" :> TRUE) @@ notif

notif_link(notif, al) ==
    IF al # NoLink
    THEN ("archivelink" :> al) @@ notif
    ELSE ("invalid" :> TRUE) @@ ("reason" :> "archive link not found") @@ notif

notif_user(notif, notifiable) ==
    IF ~notifiable
    THEN ("invalid" :> TRUE) @@ ("reason" :> "user is not notifiable") @@ notif
    ELSE notif

make_notif(username, tn, al, notifiable) ==
    notif_user(notif_link(notif_base(username, tn), al), notifiable)

build_notification_list(matched, archive_links, notifiable) ==
    [ i \in 1..Len(archive_links) |->
        make_notif(thread_matched_users(matched)[i],
                   thread_matched_names(matched)[i],
                   archive_links[i],
                   notifiable[thread_matched_users(matched)[i]]) ]

\* ------------------------------------------------------------------ notify
\* the page 'User talk:' + user
TalkPage(user) == << "User talk:", user >>

\* 'User talk:Tigraan-testbot/THA log'
LogPage == << "User talk:", "Tigraan-testbot/THA log" >>

\* 'Notification intended for [[:en:User talk:' + user + ']]'
IntendedFor(user) == << "Notification intended for [[:en:User talk:", user, "]]" >>

\* the template call: its arguments, and the test-phase comment as
\* additionaltext when testlvl > 0 (lines 943-952)
notification_text(argstr, testlvl) ==
    IF testlvl > 0
    THEN Append(argstr, << "additionaltext", "test_comment" >>)
    ELSE argstr

\* mutant: test level 2 posts where test level 3 does, on the talk page of
\* the user, and the text of test level 1 has no test-phase comment
notify_early_talkpage(user, argstr, testlvl) ==
    IF testlvl = 1
    THEN [ raised |-> "",
           posted |-> << [ site |-> "test", page |-> LogPage,
                           sn |-> IntendedFor(user), es |-> IntendedFor(user),
                           text |-> notification_text(argstr, 0) ] >> ]
    ELSE IF testlvl \in { 2, 3 }
    THEN [ raised |-> "",
           posted |-> << [ site |-> "en", page |-> TalkPage(user),
                           sn |-> << "Your thread has been archived" >>,
                           es |-> << "Automated notification of thread archival (test run)" >>,
                           text |-> notification_text(argstr, testlvl) ] >> ]
    ELSE [ raised |-> "UnboundLocalError", posted |-> <<>> ]

\* notify posts with add_text, or raises: the branch of testlvl 0 assigns
\* neither page nor sn nor es (lines 934-940), so the format of line 954
\* meets an unbound sn
notify(user, argstr, testlvl) ==
    IF testlvl = 1
    THEN [ raised |-> "",
           posted |-> << [ site |-> "test", page |-> LogPage,
                           sn |-> IntendedFor(user), es |-> IntendedFor(user),
                           text |-> notification_text(argstr, testlvl) ] >> ]
    ELSE IF testlvl = 2
    THEN [ raised |-> "",
           posted |-> << [ site |-> "en", page |-> LogPage,
                           sn |-> IntendedFor(user), es |-> IntendedFor(user),
                           text |-> notification_text(argstr, testlvl) ] >> ]
    ELSE IF testlvl = 3
    THEN [ raised |-> "",
           posted |-> << [ site |-> "en", page |-> TalkPage(user),
                           sn |-> << "Your thread has been archived" >>,
                           es |-> << "Automated notification of thread archival (test run)" >>,
                           text |-> notification_text(argstr, testlvl) ] >> ]
    ELSE [ raised |-> "UnboundLocalError", posted |-> <<>> ]

\* -------------------------------------------------------------- notify_all
\* the keys notify_all reads from one item of the notification list
notify_all_reads(item) ==
    IF item["invalid"]
    THEN { "user", "thread", "invalid", "reason" }
    ELSE { "user", "thread", "invalid", "archivelink" }

archive_from == "[[Wikipedia:Teahouse]]"
botname == "Tigraan-testbot"

\* formatspec.format(pl=..., tn=..., al=..., bn=..., en=...)
format_argstr(pl, tn, al, bn, en) ==
    << << "pagelinked", pl >>, << "threadname", tn >>, << "archivelink", al >>,
       << "botname", bn >>, << "editorname", en >> >>

\* one pass of the loop of notify_all (lines 980-1005): what is posted or
\* printed, what is logged, and the exception raised if any
notify_all_item(item, stat) ==
    LET user == item["user"]
        thread == item["thread"]
        argstr == format_argstr(archive_from, thread, item["archivelink"],
                                botname, user)
        nothing == [ raised |-> "", posted |-> <<>>, warnings |-> <<>> ]
        by(testlvl) == [ raised |-> notify(user, argstr, testlvl).raised,
                         posted |-> notify(user, argstr, testlvl).posted,
                         warnings |-> <<>> ]
    IN  IF item["invalid"]
        THEN [ nothing EXCEPT !.warnings =
                 << [ kind |-> "no notification", thread |-> thread,
                      user |-> user, reason |-> item["reason"] ] >> ]
        ELSE IF stat = "offlinetest"
        THEN [ nothing EXCEPT !.posted =
                 << [ site |-> "stdout", page |-> TalkPage(user),
                      sn |-> <<>>, es |-> <<>>,
                      text |-> notification_text(argstr, 0) ] >> ]
        ELSE IF stat = "test-1" THEN by(1)
        ELSE IF stat = "test-2" THEN by(2)
        ELSE IF stat = "test-3" THEN by(3)
        ELSE IF stat = "prod" THEN by(0)
        ELSE [ nothing EXCEPT !.raised = "ValueError" ]

\* =================================================================== state
\* pc names the statement of generate_notification_list that runs next.  A
\* local that is never read again is reset by the step after its last use,
\* and the locals of a callee live until the step after its return.  In a
\* whole run the arguments and locals of list_matching and
\* search_archives_for_section are reset as soon as the call returns.
VARIABLES
    pc,                     \* next statement, "return" or "raised"
    history,                \* get_revisions_from_api: what the API holds
    maxcontinuenumber,      \* get_revisions_from_api: the continue budget
    rev_table,              \* revisions returned by revisions_since_x_days
    idbefore,               \* lae['before']: revision before the archival edit
    idafter,                \* lae['after']: revision of the archival edit
    links,                  \* lae['links']: archive pages named by the edit
    sec_list_1,             \* section titles of the revision before the edit
    sec_list_2,             \* section titles of the revision after the edit
    archived_sections,      \* result of sections_removed_by_diff
    nscreated,              \* creation records of newsections_at_teahouse
    thread_matched,         \* result of list_matching
    archive_contents,       \* sections fetched for each archive link
    list_of_archive_links,  \* result of search_archives_for_section
    resultlist,             \* answer of the blocks query
    userinfo,               \* answer of the users query, keys per user
    is_notifiable,          \* result of isnotifiable
    notification_list,      \* result of generate_notification_list
    calls,                  \* requests sent to the API by the step just taken
    log,                    \* records logged by the step just taken
    raised,                 \* exception that ended the run, "" if none
    status,                 \* notify_all: the status it was called with
    idx,                    \* notify_all: position of the loop in the list
    posts,                  \* notify_all: notifications issued so far
    session                 \* main: "in" between login and logout, else "out"

\* the variables of notify_all and of main
delivery == << status, idx, posts, session >>

\* the arguments of get_revisions_from_api when it is called on its own
paging == << history, maxcontinuenumber >>

vars == << pc, history, maxcontinuenumber, rev_table, idbefore, idafter, links,
           sec_list_2, archived_sections, nscreated, thread_matched, archive_contents, list_of_archive_links,
           resultlist, userinfo, is_notifiable, notification_list, calls, log,
           raised, status, idx, posts, session >>

\* ------------------------------------------------------------ input domains
DupFree(S, n) == { s \in SeqsUpTo(S, n) : \A i, j \in 1..Len(s) : i # j => s[i] # s[j] }

\* page history is listed newest first, every revision has its own revid
CreatedBy(U, n) ==
    UNION { { [ i \in 1..k |-> [ revid |-> k - i + 1,
                                 name |-> f[i].name,
                                 user |-> f[i].user ] ] :
              f \in [ 1..k -> [ name : Titles, user : U ] ] } : k \in 0..n }

CreatedLists(n) == CreatedBy(Users, n)

\* sections of one page: the anchor identifies the section on its page
PageSections(L, n) ==
    UNION { { [ i \in 1..k |-> [ line |-> f[i], anchor |-> i ] ] :
              f \in [ 1..k -> L ] } : k \in 0..n }

SectionLists(n) == PageSections(ArchiveLines, n)

LinkLists(n) == SeqsUpTo(Pages, n)

\* what api_call can return for a request whose answers range over S
Responses(S) == { None } \cup { Response(json) : json \in S }

\* edit summaries of the archiver: a text followed by up to n wikilinks
EditSummaries(n) ==
    { << <<"Archiving to">> >> \o [ i \in 1..Len(l) |-> << "[[", l[i], "]]" >> ] :
        l \in LinkLists(n) }

\* revisions of the page: the edits of the archiver, and an edit of somebody
\* else whose summary has a wikilink too
Revisions(n) ==
    [ user : { archiver }, comment : EditSummaries(n) ]
        \cup { [ user |-> "u1",
                 comment |-> << <<"see">>, << "[[", "Archive_2", "]]" >> >> ] }

\* the revisions of one page, newest first: each has its own revid, and its
\* parentid is the revid of the revision before it
WithIds(edits) ==
    [ i \in 1..Len(edits) |->
        [ revid |-> Len(edits) - i + 2,
          parentid |-> Len(edits) - i + 1,
          user |-> edits[i].user,
          comment |-> edits[i].comment ] ]

RevTables(n, m) == { WithIds(edits) : edits \in SeqsUpTo(Revisions(n), m) }

\* the summary of the edit that creates the section name
NewSectionSummary(name) ==
    << Opening >> \o [ i \in 1..Len(name) |-> << name[i] >> ] \o << Closing >>

\* the edits of a whole run that matter to it: those that create a section
RunEdits ==
    { [ user |-> u, comment |-> NewSectionSummary(t) ] : u \in Users, t \in Titles }

\* table cut into result pages after the positions of cuts
RECURSIVE CutAt(_, _)
CutAt(table, cuts) ==
    IF cuts = {} THEN << table >>
    ELSE LET c == CHOOSE x \in cuts : \A y \in cuts : y <= x
         IN  Append(CutAt(SubSeq(table, 1, c), cuts \ { c }),
                    SubSeq(table, c + 1, Len(table)))

\* the ways the API can serve table in up to n result pages, none empty
\* unless the table is
Splits(table, n) ==
    { CutAt(table, cuts) :
        cuts \in { c \in SUBSET (1..(Len(table) - 1)) : Cardinality(c) < n } }

\* what the API can hold: the tables of T in up to n result pages, with up
\* to one of the first n requests left without response
Histories(T, n, E) ==
    [ pages : UNION { Splits(table, n) : table \in T },
      endless : E,
      unanswered : { {} } \cup { { k } : k \in 1..n } ]

\* keys of one entry of the users query, besides 'name'
\* (a renamed account, an IP address, a registered account)
InfoKinds == { {"missing"}, {"invalid"}, {"groups", "userid"} }

Empty == << >>

\* notify_all has not been called, main has not logged in
Idle ==
    /\ status = ""
    /\ idx = 0
    /\ posts = <<>>
    /\ session = "out"

\* every variable at its value before the run starts
Blank ==
    /\ history = NoHistory
    /\ maxcontinuenumber = 0
    /\ rev_table = <<>>
    /\ idbefore = NoId
    /\ idafter = NoId
    /\ links = <<>>
    /\ sec_list_1 = <<>>
    /\ sec_list_2 = <<>>
    /\ archived_sections = <<>>
    /\ nscreated = <<>>
    /\ thread_matched = <<>>
    /\ archive_contents = Empty
    /\ list_of_archive_links = <<>>
    /\ resultlist = {}
    /\ userinfo = Empty
    /\ is_notifiable = Empty
    /\ notification_list = <<>>
    /\ calls = <<>>
    /\ log = <<>>
    /\ raised = ""
    /\ Idle

\* ================================================================= actions
\* lines 851-853: last_archival_edit reads the revisions of the lookup window,
\* which the API serves in one result page (no continuation is asked for),
\* and returns the last edit of the archiver
LastArchivalEdit(tables) ==
    /\ pc = "last_archival_edit"
    /\ \E table \in tables, unanswered \in { {}, { 1 } } :
          LET h == [ pages |-> << table >>, endless |-> FALSE,
                     unanswered |-> unanswered ]
              revs == revisions_since_x_days(h, 0)
              lae == IF revs.raised = "" THEN last_archival_edit(revs.value)
                     ELSE [ NoArchivalEdit EXCEPT !.raised = revs.raised ]
          IN  /\ rev_table' = revs.value
              /\ idbefore' = lae.before
              /\ idafter' = lae.after
              /\ links' = lae.links
              /\ raised' = lae.raised
              /\ calls' = revs.calls
              /\ pc' = IF lae.raised = "" THEN "get_sections" ELSE "raised"
    /\ UNCHANGED << paging, sec_list_1, sec_list_2, archived_sections,
                    nscreated, thread_matched, archive_contents,
                    list_of_archive_links, resultlist, userinfo, is_notifiable,
                    notification_list, log, delivery >>

\* the lookup windows of a whole run
LastArchivalEditInRun == LastArchivalEdit(RevTables(RunLinks, RunRevs))

\* sections_removed_by_diff, lines 606-610: the section titles of the two
\* revisions, as the API lists them
GetSections ==
    /\ pc = "get_sections"
    /\ \E r1 \in Responses(PageSections(Titles, RunBefore)),
          r2 \in Responses(PageSections(Titles, RunAfter)) :
          LET json1 == get_sections_from_api(r1)
              json2 == get_sections_from_api(r2)
          IN  /\ sec_list_1' = traverse_list_of_sections(json1.value)
              /\ sec_list_2' = IF json1.raised = ""
                               THEN traverse_list_of_sections(json2.value)
                               ELSE <<>>
              /\ raised' = IF json1.raised # "" THEN json1.raised ELSE json2.raised
              /\ calls' = api_calls(<< api_request("sections", idbefore),
                                       api_request("sections", idafter) >>,
                                    << r1, r2 >>)
              /\ pc' = IF json1.raised = "" /\ json2.raised = ""
                       THEN "safe_list_diff" ELSE "raised"
    /\ rev_table' = <<>>
    /\ idbefore' = NoId
    /\ idafter' = NoId
    /\ UNCHANGED << paging, links, archived_sections,
                    nscreated, thread_matched, archive_contents,
                    list_of_archive_links, resultlist, userinfo, is_notifiable,
                    notification_list, log, delivery >>

\* sections_removed_by_diff, line 612: safe_list_diff(sec_list_1, sec_list_2)
SafeListDiffCall ==
    /\ pc = "safe_list_diff"
    /\ LET r == safe_list_diff(sec_list_1, sec_list_2)
       IN  /\ raised' = r.raised
           /\ archived_sections' = r.value
           /\ log' = r.warnings
           /\ pc' = IF r.raised = "" THEN "newsections" ELSE "raised"
    /\ calls' = <<>>
    /\ UNCHANGED << paging, rev_table, idbefore, idafter, links, sec_list_1,
                    sec_list_2, nscreated, thread_matched, archive_contents,
                    list_of_archive_links, resultlist, userinfo, is_notifiable,
                    notification_list, delivery >>

\* ------------------------------------------ safe_list_diff on its own inputs
InitDiff ==
    /\ pc = "safe_list_diff"
    /\ \E b \in SeqsUpTo(Titles, MaxBefore), a \in SeqsUpTo(Titles, MaxAfter) :
          /\ sec_list_1 = b
          /\ sec_list_2 = a
          /\ history = NoHistory
          /\ maxcontinuenumber = 0
          /\ rev_table = <<>>
          /\ idbefore = NoId
          /\ idafter = NoId
          /\ links = <<>>
          /\ archived_sections = <<>>
          /\ nscreated = <<>>
          /\ thread_matched = <<>>
          /\ archive_contents = Empty
          /\ list_of_archive_links = <<>>
          /\ resultlist = {}
          /\ userinfo = Empty
          /\ is_notifiable = Empty
          /\ notification_list = <<>>
          /\ calls = <<>>
          /\ log = <<>>
          /\ raised = ""
          /\ Idle

NextDiff == SafeListDiffCall

SpecDiff == InitDiff /\ [][NextDiff]_vars

\* lines 858-859: newsections_at_teahouse pulls the page history, with up to
\* maxpagestopull continuations, and keeps the section creations.  The
\* revisions pulled are a local of the call: they are kept beside the result
\* only when the call is looked at on its own (keep)
NewSections(histories, keep) ==
    /\ pc = "newsections"
    /\ \E h \in histories :
          LET revs == revisions_since_x_days(h, maxpagestopull)
          IN  /\ nscreated' = newsections_at_teahouse(revs.value)
              /\ rev_table' = IF keep THEN revs.value ELSE <<>>
              /\ raised' = revs.raised
              /\ calls' = revs.calls
              /\ pc' = IF revs.raised = "" THEN "list_matching" ELSE "raised"
    /\ sec_list_1' = <<>>
    /\ sec_list_2' = <<>>
    /\ log' = <<>>
    /\ UNCHANGED << paging, idbefore, idafter, links, archived_sections,
                    thread_matched, archive_contents, list_of_archive_links,
                    resultlist, userinfo, is_notifiable, notification_list,
                    delivery >>

\* table served in result pages of size revisions each, the last one with
\* what is left
RECURSIVE Chunks(_, _)
Chunks(table, size) ==
    IF Len(table) <= size THEN << table >>
    ELSE << SubSeq(table, 1, size) >>
             \o Chunks(SubSeq(table, size + 1, Len(table)), size)

\* the page histories of a whole run: result pages of RunPageSize revisions,
\* and up to one request left without response
RunHistories ==
    UNION { { [ pages |-> Chunks(WithIds(edits), RunPageSize),
                endless |-> FALSE,
                unanswered |-> u ] :
              u \in { {} } \cup { { k } : k \in 1..Len(Chunks(edits, RunPageSize)) } } :
            edits \in SeqsUpTo(RunEdits, RunCreated) }

NewSectionsInRun == NewSections(RunHistories, FALSE)

\* generate_notification_list, line 863: list_matching.  Its two arguments
\* are not read again by the run: they are kept beside the result only when
\* the call is looked at on its own (keep)
ListMatching(keep) ==
    /\ pc = "list_matching"
    /\ LET r == list_matching(archived_sections, nscreated)
       IN  /\ thread_matched' = r.output
           /\ log' = r.warnings
    /\ pc' = "search_archives"
    /\ calls' = <<>>
    /\ archived_sections' = IF keep THEN archived_sections ELSE <<>>
    /\ nscreated' = IF keep THEN nscreated ELSE <<>>
    /\ UNCHANGED << paging, rev_table, idbefore, idafter, links, sec_list_1,
                    sec_list_2, archive_contents, list_of_archive_links,
                    resultlist, userinfo, is_notifiable, notification_list,
                    raised, delivery >>

ListMatchingCall == ListMatching(TRUE)

ListMatchingInRun == ListMatching(FALSE)

\* the archive pages do not change while they are read: two answered
\* requests for the same page carry the same sections
SamePageSameAnswer(links_to_search, responses) ==
    \A i, j \in 1..Len(links_to_search) :
        (/\ links_to_search[i] = links_to_search[j]
         /\ responses[i].answered
         /\ responses[j].answered) => responses[i] = responses[j]

\* lines 869-871: search_archives_for_section; the sections of each archive
\* link are whatever the pages hold when get_sections_from_api is called
\* (at most maxsections on a page).  The sections fetched are a local of the
\* call: they are kept beside the result only when the call is looked at on
\* its own (keep)
SearchArchives(maxsections, keep) ==
    /\ pc = "search_archives"
    /\ \E responses \in [ 1..Len(links) -> Responses(SectionLists(maxsections)) ] :
          /\ SamePageSameAnswer(links, responses)
          /\ LET fetched == fetch_archives(links, responses)
                 r == IF fetched.raised = ""
                      THEN search_archives_for_section(
                               links, fetched.archive_contents,
                               thread_matched_names(thread_matched))
                      ELSE [ out_links |-> <<>>, warnings |-> <<>> ]
             IN  /\ archive_contents' = IF keep THEN fetched.archive_contents
                                         ELSE Empty
                 /\ list_of_archive_links' = r.out_links
                 /\ log' = r.warnings
                 /\ raised' = fetched.raised
                 /\ calls' = api_calls(fetch_requests(links), responses)
                 /\ pc' = IF fetched.raised = "" THEN "isnotifiable" ELSE "raised"
    /\ archived_sections' = <<>>
    /\ nscreated' = <<>>
    /\ UNCHANGED << paging, rev_table, idbefore, idafter, links, sec_list_1,
                    sec_list_2, thread_matched, resultlist, userinfo,
                    is_notifiable, notification_list, delivery >>

SearchArchivesCall == SearchArchives(MaxSections, TRUE)

SearchArchivesInRun == SearchArchives(RunSections, FALSE)

\* line 874: isnotifiable; the two queries answer for the users asked about
IsNotifiableCall ==
    /\ pc = "isnotifiable"
    /\ LET users == thread_matched_users(thread_matched)
       IN  \E rb \in Responses(SUBSET { [ user |-> u ] : u \in SeqToSet(users) }),
              ru \in Responses([ SeqToSet(users) -> InfoKinds ]) :
              LET blocks == Subscript(rb)
                  info == Subscript(ru)
                  ok == blocks.raised = "" /\ info.raised = ""
              IN  /\ resultlist' = IF blocks.raised = "" THEN blocks.value ELSE {}
                  /\ userinfo' = IF ok THEN info.value ELSE Empty
                  /\ is_notifiable' = IF ok
                                      THEN isnotifiable(users, blocks.value, info.value)
                                      ELSE Empty
                  /\ raised' = IF blocks.raised # "" THEN blocks.raised
                               ELSE info.raised
                  /\ calls' = api_calls(isnotifiable_requests(users), << rb, ru >>)
                  /\ pc' = IF ok THEN "build" ELSE "raised"
    /\ archive_contents' = Empty
    /\ log' = <<>>
    /\ UNCHANGED << paging, rev_table, idbefore, idafter, links, sec_list_1,
                    sec_list_2, archived_sections, nscreated, thread_matched,
                    list_of_archive_links, notification_list, delivery >>

\* lines 876-903: the loop that builds the notification list, and the return
BuildNotificationList ==
    /\ pc = "build"
    /\ notification_list' = build_notification_list(thread_matched,
                                                    list_of_archive_links,
                                                    is_notifiable)
    /\ pc' = "return"
    /\ resultlist' = {}
    /\ userinfo' = Empty
    /\ calls' = <<>>
    /\ UNCHANGED << paging, rev_table, idbefore, idafter, links, sec_list_1,
                    sec_list_2, archived_sections, nscreated, thread_matched,
                    archive_contents, list_of_archive_links, is_notifiable,
                    log, raised, delivery >>

\* --------------------------------------------- list_matching on its own inputs
InitMatch ==
    /\ pc = "list_matching"
    /\ archived_sections \in DupFree(Titles, MaxRemoved)
    /\ nscreated \in CreatedLists(MaxCreated)
    /\ history = NoHistory
    /\ maxcontinuenumber = 0
    /\ rev_table = <<>>
    /\ idbefore = NoId
    /\ idafter = NoId
    /\ links = <<>>
    /\ sec_list_1 = <<>>
    /\ sec_list_2 = <<>>
    /\ thread_matched = <<>>
    /\ archive_contents = Empty
    /\ list_of_archive_links = <<>>
    /\ resultlist = {}
    /\ userinfo = Empty
    /\ is_notifiable = Empty
    /\ notification_list = <<>>
    /\ calls = <<>>
    /\ log = <<>>
    /\ raised = ""
    /\ Idle

NextMatch == ListMatchingCall

SpecMatch == InitMatch /\ [][NextMatch]_vars

\* ------------------------- search_archives_for_section on its own inputs
\* the lists that list_matching can hand over (one author is enough here)
MatchedLists(n) ==
    { list_matching(ta, tc).output :
        ta \in DupFree(Titles, n), tc \in CreatedBy({"u1"}, n) }

InitSearch ==
    /\ pc = "search_archives"
    /\ links \in (LinkLists(MaxLinks) \ { <<>> })
    /\ thread_matched \in MatchedLists(MaxNames)
    /\ history = NoHistory
    /\ maxcontinuenumber = 0
    /\ rev_table = <<>>
    /\ idbefore = NoId
    /\ idafter = NoId
    /\ archived_sections = <<>>
    /\ nscreated = <<>>
    /\ sec_list_1 = <<>>
    /\ sec_list_2 = <<>>
    /\ archive_contents = Empty
    /\ list_of_archive_links = <<>>
    /\ resultlist = {}
    /\ userinfo = Empty
    /\ is_notifiable = Empty
    /\ notification_list = <<>>
    /\ calls = <<>>
    /\ log = <<>>
    /\ raised = ""
    /\ Idle

NextSearch == SearchArchivesCall

SpecSearch == InitSearch /\ [][NextSearch]_vars

\* ----------------------------------------------- notify_all on its own inputs
\* one pass of the loop of notify_all
NotifyAllItem ==
    /\ pc = "notify_all"
    /\ idx <= Len(notification_list)
    /\ LET r == notify_all_item(notification_list[idx], status)
       IN  /\ posts' = posts \o r.posted
           /\ log' = r.warnings
           /\ raised' = r.raised
           /\ pc' = IF r.raised = "" THEN "notify_all" ELSE "raised"
           /\ idx' = IF r.raised = "" THEN idx + 1 ELSE idx
    /\ UNCHANGED << paging, rev_table, idbefore, idafter, links, sec_list_1,
                    sec_list_2, archived_sections, nscreated, thread_matched,
                    archive_contents, list_of_archive_links, resultlist,
                    userinfo, is_notifiable, notification_list, calls, status,
                    session >>

\* the loop is over: notify_all returns
NotifyAllReturn ==
    /\ pc = "notify_all"
    /\ idx > Len(notification_list)
    /\ pc' = "notified"
    /\ log' = <<>>
    /\ UNCHANGED << paging, rev_table, idbefore, idafter, links, sec_list_1,
                    sec_list_2, archived_sections, nscreated, thread_matched,
                    archive_contents, list_of_archive_links, resultlist,
                    userinfo, is_notifiable, notification_list, calls, raised,
                    delivery >>

\* the values of status the docstring of notify_all names, and another one
Statuses == { "offlinetest", "test-1", "test-2", "test-3", "prod", "live" }

\* the lists generate_notification_list can return for up to n threads named
\* "a" or "b", with or without archive link, of eligible or ineligible authors
NotificationLists(n) ==
    UNION { { build_notification_list(m, al, nt) :
                m \in [ 1..k -> [ revid : { 1 }, name : { <<"a">>, <<"b">> },
                                  user : Users ] ],
                al \in [ 1..k -> { NoLink, FullArchiveLink("Archive_1", 1) } ],
                nt \in [ Users -> BOOLEAN ] } : k \in 0..n }

InitNotify ==
    /\ pc = "notify_all"
    /\ notification_list \in NotificationLists(MaxNotifs)
    /\ status \in Statuses
    /\ idx = 1
    /\ posts = <<>>
    /\ session = "out"
    /\ history = NoHistory
    /\ maxcontinuenumber = 0
    /\ rev_table = <<>>
    /\ idbefore = NoId
    /\ idafter = NoId
    /\ links = <<>>
    /\ sec_list_1 = <<>>
    /\ sec_list_2 = <<>>
    /\ archived_sections = <<>>
    /\ nscreated = <<>>
    /\ thread_matched = <<>>
    /\ archive_contents = Empty
    /\ list_of_archive_links = <<>>
    /\ resultlist = {}
    /\ userinfo = Empty
    /\ is_notifiable = Empty
    /\ calls = <<>>
    /\ log = <<>>
    /\ raised = ""

NextNotify ==
    \/ NotifyAllItem
    \/ NotifyAllReturn

SpecNotify == InitNotify /\ [][NextNotify]_vars

\* ------------------------------------ one run of generate_notification_list
Init ==
    /\ pc = "last_archival_edit"
    /\ Blank

Next ==
    \/ LastArchivalEditInRun
    \/ GetSections
    \/ SafeListDiffCall
    \/ NewSectionsInRun
    \/ ListMatchingInRun
    \/ SearchArchivesInRun
    \/ IsNotifiableCall
    \/ BuildNotificationList

Spec == Init /\ [][Next]_vars

\* ------------------------------------ last_archival_edit on its own inputs
LastArchivalEditCall == LastArchivalEdit(RevTables(MaxLinks, MaxRevs))

InitLae ==
    /\ pc = "last_archival_edit"
    /\ Blank

NextLae == LastArchivalEditCall

SpecLae == InitLae /\ [][NextLae]_vars

\* ------------------------------- newsections_at_teahouse on its own inputs
\* edits of the page history: sections created (one of them by either user),
\* a creation summary with more text after it, one quoted after other text
\* (a signing bot), a reply in a section, a summary that repeats the end of
\* the pattern, and an edit without summary
HistoryEdits ==
    { [ user |-> u, comment |-> NewSectionSummary(<<"a">>) ] : u \in Users }
        \cup { [ user |-> "u1", comment |-> c ] :
                 c \in { NewSectionSummary(<<" ", "a", " ">>),
                         NewSectionSummary(<<"b">>) \o << <<": more">> >>,
                         << <<"Signing comment: ">> >> \o NewSectionSummary(<<"a">>),
                         << Opening, <<"a">>, << " */ " >>, <<"reply">> >>,
                         NewSectionSummary(<<"b">>) \o << Closing >>,
                         <<>> } }

NewSectionsCall ==
    NewSections(Histories({ WithIds(edits) : edits \in SeqsUpTo(HistoryEdits, MaxRevs) },
                          RunPages, { FALSE }),
                TRUE)

InitNew ==
    /\ pc = "newsections"
    /\ Blank

NextNew == NewSectionsCall

SpecNew == InitNew /\ [][NextNew]_vars

\* -------------------------------- get_revisions_from_api on its own inputs
\* the whole pull: the first call and the calls it makes of itself
GetRevisionsCall ==
    /\ pc = "get_revisions"
    /\ LET revs == get_revisions_from_api(history, 1, maxcontinuenumber, NoContinue)
       IN  /\ rev_table' = revs.value
           /\ raised' = revs.raised
           /\ calls' = revs.calls
           /\ pc' = IF revs.raised = "" THEN "revisions" ELSE "raised"
    /\ UNCHANGED << paging, idbefore, idafter, links, sec_list_1, sec_list_2,
                    archived_sections, nscreated, thread_matched,
                    archive_contents, list_of_archive_links, resultlist,
                    userinfo, is_notifiable, notification_list, log,
                    delivery >>

\* up to n edits of one page between the two timestamps
PlainTables(n) ==
    { WithIds(edits) :
        edits \in SeqsUpTo({ [ user |-> "u1", comment |-> << <<"edit">> >> ] }, n) }

InitRevs ==
    /\ pc = "get_revisions"
    /\ history \in Histories(PlainTables(MaxRevs), MaxPages, BOOLEAN)
    /\ maxcontinuenumber \in 0..MaxContinue
    /\ rev_table = <<>>
    /\ idbefore = NoId
    /\ idafter = NoId
    /\ links = <<>>
    /\ sec_list_1 = <<>>
    /\ sec_list_2 = <<>>
    /\ archived_sections = <<>>
    /\ nscreated = <<>>
    /\ thread_matched = <<>>
    /\ archive_contents = Empty
    /\ list_of_archive_links = <<>>
    /\ resultlist = {}
    /\ userinfo = Empty
    /\ is_notifiable = Empty
    /\ notification_list = <<>>
    /\ calls = <<>>
    /\ log = <<>>
    /\ raised = ""
    /\ Idle

NextRevs == GetRevisionsCall

SpecRevs == InitRevs /\ [][NextRevs]_vars

\* ------------------------------------------------------------ one run of main
\* line 1021: login.main()
Login ==
    /\ pc = "login"
    /\ session' = "in"
    /\ pc' = "whoami"
    /\ UNCHANGED << paging, rev_table, idbefore, idafter, links, sec_list_1,
                    sec_list_2, archived_sections, nscreated, thread_matched,
                    archive_contents, list_of_archive_links, resultlist,
                    userinfo, is_notifiable, notification_list, calls, log,
                    raised, status, idx, posts >>

\* line 1022: whoami(), whose answer is subscripted (line 101)
WhoAmI ==
    /\ pc = "whoami"
    /\ \E r \in Responses({ botname }) :
          /\ raised' = Subscript(r).raised
          /\ calls' = api_calls(<< api_request("userinfo", "whoami") >>, << r >>)
          /\ pc' = IF Subscript(r).raised = "" THEN "last_archival_edit"
                   ELSE "raised"
    /\ UNCHANGED << paging, rev_table, idbefore, idafter, links, sec_list_1,
                    sec_list_2, archived_sections, nscreated, thread_matched,
                    archive_contents, list_of_archive_links, resultlist,
                    userinfo, is_notifiable, notification_list, log,
                    delivery >>

\* lines 1024-1026: generate_notification_list has returned, its locals are
\* gone; notify_all is called with status 'offlinetest'
CallNotifyAll ==
    /\ pc = "return"
    /\ status' = "offlinetest"
    /\ idx' = 1
    /\ pc' = "notify_all"
    /\ links' = <<>>
    /\ thread_matched' = <<>>
    /\ list_of_archive_links' = <<>>
    /\ is_notifiable' = Empty
    /\ UNCHANGED << paging, rev_table, idbefore, idafter, sec_list_1,
                    sec_list_2, archived_sections, nscreated, archive_contents,
                    resultlist, userinfo, notification_list, calls, log,
                    raised, posts, session >>

\* line 1027: login.main('-logout')
Logout ==
    /\ pc = "notified"
    /\ session' = "out"
    /\ pc' = "done"
    /\ UNCHANGED << paging, rev_table, idbefore, idafter, links, sec_list_1,
                    sec_list_2, archived_sections, nscreated, thread_matched,
                    archive_contents, list_of_archive_links, resultlist,
                    userinfo, is_notifiable, notification_list, calls, log,
                    raised, status, idx, posts >>

InitMain ==
    /\ pc = "login"
    /\ Blank

NextMain ==
    \/ Login
    \/ WhoAmI
    \/ LastArchivalEditInRun
    \/ GetSections
    \/ SafeListDiffCall
    \/ NewSectionsInRun
    \/ ListMatchingInRun
    \/ SearchArchivesInRun
    \/ IsNotifiableCall
    \/ BuildNotificationList
    \/ CallNotifyAll
    \/ NotifyAllItem
    \/ NotifyAllReturn
    \/ Logout

\* main is one sequential thread: a statement that can run does run
SpecMain == InitMain /\ [][NextMain]_vars /\ WF_vars(NextMain)

\* ================================================================== claims
NoRepeat(s) == \A i, j \in 1..Len(s) : i # j => s[i] # s[j]

\* position of the first occurrence of x in s
Pos(s, x) == CHOOSE i \in 1..Len(s) : s[i] = x /\ \A j \in 1..(i - 1) : s[j] # x

DiffDone == pc \in {"newsections", "raised"}
DiffReturned == pc = "newsections"
AfterWithinBefore == SeqToSet(sec_list_2) \subseteq SeqToSet(sec_list_1)

C2_DuplicatesExcluded ==
    (DiffDone /\ AfterWithinBefore) =>
        /\ DiffReturned
        /\ raised = ""
        /\ \A t \in Titles :
              /\ Count(sec_list_1, t) > 1 => t \notin SeqToSet(archived_sections)
              /\ Cardinality({ i \in 1..Len(log) :
                                 log[i] = [ kind |-> "duplicate", name |-> t ] })
                    = (IF Count(sec_list_1, t) > 1 THEN 1 ELSE 0)
        /\ Len(log) = Cardinality({ t \in Titles : Count(sec_list_1, t) > 1 })
        /\ (\A t \in SeqToSet(sec_list_1) : Count(sec_list_1, t) > 1)
              => archived_sections = <<>>

\* a duplicated title that is gone from after, beside a removed single title
C2_Witness ==
    /\ DiffReturned
    /\ \E t \in Titles : Count(sec_list_1, t) > 1 /\ t \notin SeqToSet(sec_list_2)
    /\ archived_sections # <<>>
    /\ Len(log) = 1

\* C3: safe_list_diff fails (AssertionError, nothing returned) exactly when
\* after contains a title that does not occur in before.
C3_FailsIffAfterNotInBefore ==
    DiffDone =>
        /\ (pc = "raised") <=> (\E t \in SeqToSet(sec_list_2) : t \notin SeqToSet(sec_list_1))
        /\ (pc = "raised") => (raised = "AssertionError" /\ archived_sections = <<>>)
        /\ (pc = "newsections") => raised = ""

\* empty before, non-empty after
C3_Witness ==
    /\ pc = "raised"
    /\ sec_list_1 = <<>>
    /\ sec_list_2 # <<>>

\* an after title that equals a before title once both are trimmed
TrimmedWithinBefore ==
    \A a \in SeqToSet(sec_list_2) :
        \E b \in SeqToSet(sec_list_1) : Strip(a) = Strip(b)

\* C10 as stated: titles are compared after trimming, so a before title that
\* equals an after title after trimming is not reported as removed, and an
\* after title that equals a before title after trimming raises no error.
C10_TrimmedComparison ==
    DiffDone =>
        /\ TrimmedWithinBefore => DiffReturned
        /\ DiffReturned =>
              \A i \in 1..Len(archived_sections) :
                 \A a \in SeqToSet(sec_list_2) :
                    Strip(a) # Strip(archived_sections[i])

\* C10 amended: safe_list_diff compares the titles as they are, untrimmed.
\* An after title raises the error unless the identical string occurs in
\* before, and a single before title is kept out of the result only when the
\* identical string occurs in after.
C10_ExactComparison ==
    DiffDone =>
        /\ (\E a \in SeqToSet(sec_list_2) :
               /\ a \notin SeqToSet(sec_list_1)
               /\ \E b \in SeqToSet(sec_list_1) : Strip(a) = Strip(b))
              => pc = "raised"
        /\ DiffReturned =>
              \A b \in SeqToSet(sec_list_1) :
                 (/\ Count(sec_list_1, b) = 1
                  /\ b \notin SeqToSet(sec_list_2)
                  /\ \E a \in SeqToSet(sec_list_2) : Strip(a) = Strip(b))
                    => b \in SeqToSet(archived_sections)

\* a removed title whose trimmed form is still on the page after the edit
C10_Witness ==
    /\ DiffReturned
    /\ \E i \in 1..Len(archived_sections) :
          \E a \in SeqToSet(sec_list_2) :
             /\ a # archived_sections[i]
             /\ Strip(a) = Strip(archived_sections[i])

\* ------------------------------------------------------------ list_matching
MatchDone == pc = "search_archives" /\ archived_sections # <<>>

\* the creation records whose trimmed name equals the trimmed title
CreationsOf(title) ==
    { j \in 1..Len(nscreated) : Strip(nscreated[j].name) = Strip(title) }

\* C4: list_matching emits a creation record for a removed title if and only
\* if exactly one creation record has the same trimmed name; the emitted
\* record is that record unchanged; a title with zero or several matching
\* records contributes nothing, and no error is raised.
C4_UniqueMatchOnly ==
    (pc = "search_archives") =>
        /\ raised = ""
        /\ \A j \in 1..Len(nscreated) :
              Count(thread_matched, nscreated[j])
                = Cardinality({ i \in 1..Len(archived_sections) :
                                  CreationsOf(archived_sections[i]) = {j} })
        /\ Len(thread_matched)
              = Cardinality({ i \in 1..Len(archived_sections) :
                                Cardinality(CreationsOf(archived_sections[i])) = 1 })

\* one title matched through trimming, one title with two creations dropped
C4_Witness ==
    /\ MatchDone
    /\ Len(archived_sections) = 2
    /\ Len(thread_matched) = 1
    /\ thread_matched[1].name # archived_sections[1]
    /\ Strip(thread_matched[1].name) = Strip(archived_sections[1])
    /\ Cardinality(CreationsOf(archived_sections[2])) = 2

\* the positions, in order, of the removed titles with exactly one creation
MatchedPositions ==
    LET unique(i) == Cardinality(CreationsOf(archived_sections[i])) = 1
    IN  SelectSeq([ i \in 1..Len(archived_sections) |-> i ], unique)

\* C11: the output of list_matching follows the order of the removed titles,
\* not the order of the creation records: its k-th record is the creation
\* record of the k-th removed title that has exactly one creation record.
C11_OrderOfRemovedTitles ==
    (pc = "search_archives") =>
        /\ Len(thread_matched) = Len(MatchedPositions)
        /\ \A k \in 1..Len(MatchedPositions) :
              \E j \in CreationsOf(archived_sections[MatchedPositions[k]]) :
                 thread_matched[k] = nscreated[j]

\* two matched titles whose creation records come in the opposite order
C11_Witness ==
    /\ MatchDone
    /\ Len(archived_sections) = 2
    /\ Len(thread_matched) = 2
    /\ \E j1, j2 \in 1..Len(nscreated) :
          /\ j2 < j1
          /\ thread_matched[1] = nscreated[j1]
          /\ thread_matched[2] = nscreated[j2]
          /\ Strip(nscreated[j1].name) = Strip(archived_sections[1])
          /\ Strip(nscreated[j2].name) = Strip(archived_sections[2])

\* titles of the threads returned by list_matching
MatchedTitles == { thread_matched[k].name : k \in 1..Len(thread_matched) }

\* C18 as stated: the set of titles of the returned threads is a strict
\* subset of the removed titles.
C18_StrictSubset ==
    (pc = "search_archives") =>
        /\ MatchedTitles \subseteq SeqToSet(archived_sections)
        /\ MatchedTitles # SeqToSet(archived_sections)

\* C18 amended: the trimmed titles of the returned threads are a subset of
\* the trimmed removed titles, and all of them when every removed title has
\* exactly one creation record; there are never more returned threads than
\* removed titles.  A returned title is the one of the creation record: it
\* equals a removed title after trimming, not always as a string.
C18_SubsetAfterTrimming ==
    (pc = "search_archives") =>
        /\ { Strip(t) : t \in MatchedTitles }
              \subseteq { Strip(t) : t \in SeqToSet(archived_sections) }
        /\ Len(thread_matched) <= Len(archived_sections)
        /\ (\A i \in 1..Len(archived_sections) :
               Cardinality(CreationsOf(archived_sections[i])) = 1)
              => { Strip(t) : t \in MatchedTitles }
                   = { Strip(t) : t \in SeqToSet(archived_sections) }

\* every removed title matched, one of them through trimming only
C18_Witness ==
    /\ MatchDone
    /\ Len(archived_sections) = 2
    /\ Len(thread_matched) = 2
    /\ MatchedTitles # SeqToSet(archived_sections)
    /\ { Strip(t) : t \in MatchedTitles }
          = { Strip(t) : t \in SeqToSet(archived_sections) }

\* ---------------------------------------------- search_archives_for_section
SearchDone == pc = "isnotifiable"

\* the sections (k-th candidate link, m-th section of its page) whose trimmed
\* name equals the trimmed i-th title
SectionsOf(i) ==
    { km \in UNION { { << k, m >> : m \in 1..Len(archive_contents[links[k]]) } :
                     k \in 1..Len(links) } :
        Strip(archive_contents[links[km[1]]][km[2]].line)
          = Strip(thread_matched[i].name) }

C12_OneEntryPerTitle ==
    SearchDone =>
        /\ Len(list_of_archive_links) = Len(thread_matched)
        /\ \A i \in 1..Len(thread_matched) :
              /\ list_of_archive_links[i] # NoLink =>
                    \E k \in 1..Len(links) :
                       \E m \in 1..Len(archive_contents[links[k]]) :
                          /\ list_of_archive_links[i]
                                = FullArchiveLink(links[k],
                                                  archive_contents[links[k]][m].anchor)
                          /\ Strip(archive_contents[links[k]][m].line)
                                = Strip(thread_matched[i].name)
              /\ list_of_archive_links[i] = NoLink =>
                    Cardinality(SectionsOf(i)) # 1

\* an unresolved title followed by a resolved title of another name
C12_Witness ==
    /\ SearchDone
    /\ Len(thread_matched) = 2
    /\ Strip(thread_matched[1].name) # Strip(thread_matched[2].name)
    /\ list_of_archive_links[1] = NoLink
    /\ list_of_archive_links[2] # NoLink

\* the requests for the sections of page p sent by the step just taken
FetchesOf(p) ==
    { i \in 1..Len(calls) : calls[i].kind = "sections" /\ calls[i].about = p }

\* C13: within one call of search_archives_for_section the sections of each
\* distinct candidate page are requested exactly once, also when the
\* candidate list names a page more than once.
C13_OneFetchPerPage ==
    SearchDone =>
        \A p \in SeqToSet(links) : Cardinality(FetchesOf(p)) = 1

\* ------------------------------------------------------------- isnotifiable
NotifiableDone == pc = "build"

\* C8: isnotifiable answers for exactly the usernames given; a user is
\* notifiable unless the directory reports it missing or it is blocked, and
\* nothing else in the directory entry changes the answer.
C8_MissingOrBlockedOnly ==
    NotifiableDone =>
        /\ DOMAIN is_notifiable = SeqToSet(thread_matched_users(thread_matched))
        /\ \A u \in DOMAIN is_notifiable :
              is_notifiable[u]
                <=> ("missing" \notin userinfo[u] /\ [ user |-> u ] \notin resultlist)

\* an unblocked IP address is notifiable, a blocked registered user is not
C8_Witness ==
    /\ NotifiableDone
    /\ \E u, v \in DOMAIN is_notifiable :
          /\ userinfo[u] = {"invalid"}
          /\ is_notifiable[u]
          /\ "groups" \in userinfo[v]
          /\ [ user |-> v ] \in resultlist
          /\ ~is_notifiable[v]

\* ----------------------------------------------- generate_notification_list
ListBuilt == pc = "return"

Unresolved(i) == list_of_archive_links[i] = NoLink
Ineligible(i) == ~is_notifiable[thread_matched[i].user]

\* C6: a record with an unresolved archive link and an ineligible author
\* carries the reason 'archive link not found'; 'user is not notifiable' is
\* given only when the link is resolved and the author is ineligible.
C6_LinkReasonFirst ==
    ListBuilt =>
        \A i \in 1..Len(notification_list) :
            /\ (Unresolved(i) /\ Ineligible(i)) =>
                  /\ notification_list[i]["invalid"]
                  /\ "reason" \in DOMAIN notification_list[i]
                  /\ notification_list[i]["reason"] = "archive link not found"
            /\ (/\ "reason" \in DOMAIN notification_list[i]
                /\ notification_list[i]["reason"] = "user is not notifiable")
                  => (~Unresolved(i) /\ Ineligible(i))

\* C7: one record per correlated thread, in correlation order: record i
\* carries the user and the name of the i-th thread of list_matching.
C7_OneRecordPerThread ==
    ListBuilt =>
        /\ Len(notification_list) = Len(thread_matched)
        /\ \A i \in 1..Len(thread_matched) :
              /\ notification_list[i]["user"] = thread_matched[i].user
              /\ notification_list[i]["thread"] = thread_matched[i].name

\* two threads of two users, the first without archive link
C7_Witness ==
    /\ ListBuilt
    /\ Len(thread_matched) = 2
    /\ thread_matched[1].user # thread_matched[2].user
    /\ thread_matched[1].name # thread_matched[2].name
    /\ Unresolved(1)
    /\ ~Unresolved(2)
    /\ Len(notification_list) = 2

\* C9: a record is valid if and only if its archive link was resolved and its
\* author is eligible; an invalid record has a reason, a valid record has the
\* resolved archive link, so notify_all finds every key it reads.
C9_ValidIffLinkAndEligible ==
    ListBuilt =>
        \A i \in 1..Len(notification_list) :
            /\ ~notification_list[i]["invalid"] <=> (~Unresolved(i) /\ ~Ineligible(i))
            /\ notification_list[i]["invalid"] =>
                  "reason" \in DOMAIN notification_list[i]
            /\ ~notification_list[i]["invalid"] =>
                  /\ "archivelink" \in DOMAIN notification_list[i]
                  /\ notification_list[i]["archivelink"] = list_of_archive_links[i]
                  /\ notification_list[i]["archivelink"] # NoLink
            /\ notify_all_reads(notification_list[i]) \subseteq DOMAIN notification_list[i]

\* a valid record beside a record that is invalid for its missing link only
C9_Witness ==
    /\ ListBuilt
    /\ Len(notification_list) = 2
    /\ ~notification_list[1]["invalid"]
    /\ notification_list[2]["invalid"]
    /\ Unresolved(2)
    /\ ~Ineligible(2)

\* last_archival_edit has run: it returned, or it ended the run
LaeDone == pc = "get_sections" \/ (pc = "raised" /\ links = <<>>)

ArchiverEdits == { i \in 1..Len(rev_table) : rev_table[i].user = archiver }

\* C15: when no revision of the lookup window was made by the archiver,
\* last_archival_edit raises ValueError and generate_notification_list ends
\* with that error, without a list.
C15_NoArchivalEditFails ==
    (LaeDone /\ (\A i \in 1..Len(calls) : calls[i].answered) /\ ArchiverEdits = {}) =>
        /\ pc = "raised"
        /\ raised = "ValueError"
        /\ notification_list = <<>>

\* a window of two revisions, none of them by the archiver
C15_Witness ==
    /\ pc = "raised"
    /\ raised = "ValueError"
    /\ Len(rev_table) = 2
    /\ ArchiverEdits = {}
    /\ \E i \in 1..Len(rev_table) : findall_wikilinks(rev_table[i].comment) # <<>>

\* a request of the step just taken got no response
ApiFailed == \E i \in 1..Len(calls) : ~calls[i].answered

\* C14: when a request made during generate_notification_list gets no
\* response, the run ends in an error (the TypeError of subscripting None)
\* and no notification list is returned.
C14_ApiFailureAborts ==
    ApiFailed =>
        /\ pc = "raised"
        /\ raised = "TypeError"
        /\ notification_list = <<>>

\* the users lookup of isnotifiable fails after the blocks lookup was answered,
\* with threads already correlated and located
C14_Witness ==
    /\ pc = "raised"
    /\ raised = "TypeError"
    /\ thread_matched # <<>>
    /\ Len(list_of_archive_links) = Len(thread_matched)
    /\ Len(calls) = 2
    /\ calls[1].kind = "blocks" /\ calls[1].answered
    /\ calls[2].kind = "users" /\ ~calls[2].answered
    /\ notification_list = <<>>

\* the reasons for which the run can end in an error: a request without
\* response, no usable archival edit, a title of after that is not in before
AbortCause ==
    \/ ApiFailed /\ raised = "TypeError"
    \/ /\ raised = "ValueError"
       /\ links = <<>>
       /\ \/ ArchiverEdits = {}
          \/ \E i \in ArchiverEdits :
                /\ \A j \in ArchiverEdits : i <= j
                /\ findall_wikilinks(rev_table[i].comment) = <<>>
    \/ raised = "AssertionError" /\ ~AfterWithinBefore

\* C16: soft failures never abort a run.  The run ends in an error only for
\* one of the causes above; a step that logged a soft failure (a duplicated
\* title, zero or several creations, zero or several archive sections) went
\* on; a duplicated title is dropped; a thread without archive link or with an ineligible author is returned as
\* an invalid record.
C16_SoftFailuresGoOn ==
    /\ (pc = "raised") => AbortCause
    /\ (log # <<>>) => pc # "raised"
    /\ (pc = "newsections") =>
          \A t \in SeqToSet(sec_list_1) :
             Count(sec_list_1, t) > 1 => t \notin SeqToSet(archived_sections)
    /\ ListBuilt =>
          /\ raised = ""
          /\ Len(notification_list) = Len(thread_matched)
          /\ \A i \in 1..Len(thread_matched) :
                (Unresolved(i) \/ Ineligible(i)) => notification_list[i]["invalid"]

\* a returned list with a thread that has no archive link and a thread whose
\* author is not eligible
C16_Witness ==
    /\ ListBuilt
    /\ Len(notification_list) = 2
    /\ Unresolved(1) /\ ~Ineligible(1)
    /\ ~Unresolved(2) /\ Ineligible(2)
    /\ notification_list[1]["invalid"]
    /\ notification_list[2]["invalid"]

\* the lookups of one kind sent by the step just taken
Lookups(kind) == { i \in 1..Len(calls) : calls[i].kind = kind }

\* isnotifiable started and ended in an error
NotifiableFailed ==
    pc = "raised" /\ calls # <<>> /\ calls[1].kind \in { "blocks", "users" }

\* C17: one call of isnotifiable that returns has sent exactly one block
\* lookup and exactly one user-information lookup, each for the whole list of
\* usernames, whatever their number; a call that fails has sent at most one
\* of each.
C17_OneLookupOfEachKind ==
    /\ NotifiableDone =>
          /\ Len(calls) = 2
          /\ Cardinality(Lookups("blocks")) = 1
          /\ Cardinality(Lookups("users")) = 1
          /\ \A i \in 1..Len(calls) :
                calls[i].about = thread_matched_users(thread_matched)
    /\ NotifiableFailed =>
          /\ Cardinality(Lookups("blocks")) <= 1
          /\ Cardinality(Lookups("users")) <= 1

\* two threads of two different users
C17_Witness ==
    /\ NotifiableDone
    /\ Len(thread_matched) = 2
    /\ thread_matched[1].user # thread_matched[2].user
    /\ Cardinality(DOMAIN is_notifiable) = 2
    /\ Len(calls) = 2

\* --------------------------------------------------------------- notify_all
\* the positions, in list order, of the valid records the loop has passed
ValidPassed ==
    LET valid(i) == ~notification_list[i]["invalid"]
        passed == IF pc = "raised" THEN idx ELSE idx - 1
    IN  SelectSeq([ i \in 1..passed |-> i ], valid)

RecognisedStatuses == { "offlinetest", "test-1", "test-2", "test-3", "prod" }

\* the k-th notification issued is the one of record i
NotificationOf(k, i) ==
    /\ k <= Len(posts)
    /\ posts[k].text[2] = << "threadname", notification_list[i]["thread"] >>
    /\ posts[k].text[3] = << "archivelink", notification_list[i]["archivelink"] >>
    /\ posts[k].text[5] = << "editorname", notification_list[i]["user"] >>

\* C19: notify_all issues nothing for a record flagged invalid, logs the
\* reason and goes on; for a recognised status it issues exactly one
\* notification per valid record, in list order, whatever invalid records
\* come before.
C19_OnePostPerValidRecord ==
    (status \in RecognisedStatuses) =>
        /\ pc # "raised"
        /\ Len(posts) = Len(ValidPassed)
        /\ \A k \in 1..Len(ValidPassed) : NotificationOf(k, ValidPassed[k])
        /\ (pc = "notify_all" /\ idx > 1 /\ notification_list[idx - 1]["invalid"]) =>
              /\ Len(log) = 1
              /\ log[1].reason = notification_list[idx - 1]["reason"]

\* C20: with status 'prod' the notification of each valid record is posted
\* to the talk page 'User talk:<user>' of the author of the thread, without
\* the test-phase comment.
C20_ProdPostsToTalkPage ==
    (status = "prod") =>
        /\ pc # "raised"
        /\ \A k \in 1..Len(ValidPassed) :
              /\ NotificationOf(k, ValidPassed[k])
              /\ posts[k].site = "en"
              /\ posts[k].page = TalkPage(notification_list[ValidPassed[k]]["user"])
              /\ \A j \in 1..Len(posts[k].text) :
                    posts[k].text[j][1] # "additionaltext"

\* the test level notify_all hands to notify for a status, -1 when notify is
\* not called
TestLevel ==
    IF status = "test-1" THEN 1
    ELSE IF status = "test-2" THEN 2
    ELSE IF status = "test-3" THEN 3
    ELSE IF status = "prod" THEN 0
    ELSE -1

HasTestComment(post) ==
    \E j \in 1..Len(post.text) : post.text[j] = << "additionaltext", "test_comment" >>

\* C21: at test levels 1 and 2 notify posts only to the log page
\* 'User talk:Tigraan-testbot/THA log' and never to the talk page of the
\* author of the thread; every post made at a test level greater than 0
\* carries the test-phase comment.
C21_TestPostsGoToLogPage ==
    \A k \in 1..Len(posts) :
        /\ TestLevel \in { 1, 2 } =>
              /\ posts[k].page = LogPage
              /\ \A u \in Users : posts[k].page # TalkPage(u)
        /\ TestLevel > 0 => HasTestComment(posts[k])

\* two notifications for two authors posted at test level 2, and the call
\* returned
C21_Witness ==
    /\ pc = "notified"
    /\ status = "test-2"
    /\ Len(posts) = 2
    /\ posts[1].sn # posts[2].sn
    /\ posts[1].page = LogPage
    /\ posts[2].page = LogPage
    /\ HasTestComment(posts[1])

\* --------------------------------------------------------------------- main
\* C22: a run of main logs in before any other step and logs out after the
\* notifications have been processed: every run that has logged in
\* eventually logs out, whatever happens in generate_notification_list and
\* notify_all.
C22_EveryLoginLogsOut ==
    /\ [](pc \notin { "login", "done" } => session = "in")
    /\ [](pc = "done" => session = "out")
    /\ (session = "in") ~> (session = "out")

\* the records of the returned list that cause a notification
ValidRecords == { i \in 1..Len(notification_list) : ~notification_list[i]["invalid"] }

\* C23: the notification list contains at most one notification per user:
\* when one user started several of the archived threads, the user entries of
\* the list are unique and the user is notified once.
C23_OneNotificationPerUser ==
    ListBuilt =>
        \A i, j \in ValidRecords :
            i # j => notification_list[i]["user"] # notification_list[j]["user"]

\* --------------------------------------------------- get_revisions_from_api
RevsDone == pc \in { "revisions", "raised" }

\* the answer of the API to the i-th request sent
AnswerTo(i) == api_revisions(history, calls[i].about)

\* the revisions of the first n result pages pulled, in pull order
Pulled(n) == Flatten([ i \in 1..n |-> AnswerTo(i).revisions ])

\* C24: get_revisions_from_api always terminates, after at most
\* maxcontinuenumber + 1 API calls: a continuation is followed only while
\* the answer is not marked complete and the continue budget left is
\* positive, and the revisions of all pulled pages are returned concatenated
\* in pull order.
C24_BoundedPull ==
    /\ (pc = "get_revisions") =>
          Len(revisions_since_x_days(history, maxcontinuenumber).calls)
             <= maxcontinuenumber + 1
    /\ RevsDone =>
          /\ Len(calls) >= 1
          /\ Len(calls) <= maxcontinuenumber + 1
          /\ calls[1].about = NoContinue
          /\ \A i \in 1..(Len(calls) - 1) :
                /\ calls[i].answered
                /\ ~AnswerTo(i).batchcomplete
                /\ calls[i + 1].about = AnswerTo(i).rvcontinue
          /\ (pc = "revisions") =>
                /\ \/ AnswerTo(Len(calls)).batchcomplete
                   \/ Len(calls) = maxcontinuenumber + 1
                /\ rev_table = Pulled(Len(calls))
          /\ (pc = "raised") => ~calls[Len(calls)].answered

\* three result pages and a budget of one continuation: two requests, the
\* revisions of the first two pages returned
C24_Witness ==
    /\ pc = "revisions"
    /\ ~history.endless
    /\ Len(history.pages) = 3
    /\ maxcontinuenumber = 1
    /\ Len(calls) = 2
    /\ rev_table = history.pages[1] \o history.pages[2]

\* C25 as stated: get_revisions_from_api returns all revisions of the page
\* made between the two timestamps, however many result pages the API
\* splits them into.
C25_AllRevisions ==
    (pc = "revisions" /\ ~history.endless) => rev_table = Flatten(history.pages)

\* C25 amended: all revisions between the two timestamps are returned when
\* the API serves them in at most maxcontinuenumber + 1 result pages; when it
\* serves more, the revisions of the first maxcontinuenumber + 1 pages (the
\* newest) are returned and the older ones are left out.
C25_AllRevisionsWithinBudget ==
    (pc = "revisions" /\ ~history.endless) =>
        /\ Len(history.pages) <= maxcontinuenumber + 1
              => rev_table = Flatten(history.pages)
        /\ Len(history.pages) > maxcontinuenumber + 1
              => /\ rev_table = Flatten(SubSeq(history.pages, 1, maxcontinuenumber + 1))
                 /\ Len(rev_table) < Len(Flatten(history.pages))

\* three revisions served in three pages, all of them returned
C25_Witness ==
    /\ pc = "revisions"
    /\ ~history.endless
    /\ Len(history.pages) = 3
    /\ maxcontinuenumber = 2
    /\ Len(rev_table) = 3
    /\ rev_table = Flatten(history.pages)

\* ------------------------------------------------------- last_archival_edit
\* the most recent edit of the archiver in rev_table
FirstArchiverEdit == CHOOSE i \in ArchiverEdits : \A j \in ArchiverEdits : i <= j

\* positions of the wikilinks in an edit summary
WikilinksIn(es) == { k \in 1..Len(es) : IsWikilink(es[k]) }

\* C26: last_archival_edit returns the first revision by the archiver in the
\* newest-first revision table: 'before' is its parent id, 'after' its
\* revision id, 'links' the wikilink targets of its edit summary in order of
\* appearance, brackets stripped; the list of links is never empty, as an
\* archival summary without wikilink raises an error.
C26_MostRecentArchivalEdit ==
    /\ (pc = "get_sections") =>
          /\ ArchiverEdits # {}
          /\ idafter = rev_table[FirstArchiverEdit].revid
          /\ idbefore = rev_table[FirstArchiverEdit].parentid
          /\ links # <<>>
          /\ LET es == rev_table[FirstArchiverEdit].comment
             IN  /\ Len(links) = Cardinality(WikilinksIn(es))
                 /\ \A n \in 1..Len(links) :
                       \E k \in WikilinksIn(es) :
                          /\ Cardinality({ j \in WikilinksIn(es) : j < k }) = n - 1
                          /\ es[k] = << "[[", links[n], "]]" >>
    /\ (/\ LaeDone
        /\ \A i \in 1..Len(calls) : calls[i].answered
        /\ ArchiverEdits # {}
        /\ WikilinksIn(rev_table[FirstArchiverEdit].comment) = {})
          => (pc = "raised" /\ raised = "ValueError")

\* an edit of somebody else, then two archival edits that name different
\* pages, the newer one naming two
C26_Witness ==
    /\ pc = "get_sections"
    /\ Len(rev_table) = 3
    /\ ArchiverEdits = { 2, 3 }
    /\ WikilinksIn(rev_table[1].comment) # {}
    /\ links = << "Archive_2", "Archive_1" >>
    /\ rev_table[3].comment # rev_table[2].comment
    /\ WikilinksIn(rev_table[3].comment) # {}
    /\ idafter = rev_table[2].revid
    /\ idbefore = rev_table[3].revid

\* -------------------------------------------------- newsections_at_teahouse
\* the names for which the edit summary starts with '/* <name> */ new section'
NamesCreatedBy(es) ==
    { Flatten(SubSeq(es, 2, i - 1)) :
        i \in { k \in 2..Len(es) : es[1] = Opening /\ es[k] = Closing } }

\* the revisions of rev_table whose summary starts with the pattern
CreatingRevisions == { i \in 1..Len(rev_table) : NamesCreatedBy(rev_table[i].comment) # {} }

\* C27: newsections_at_teahouse emits exactly one record {revid, name, user}
\* for each revision whose edit summary starts with '/* <name> */ new
\* section', none for any other revision (also when the pattern comes after
\* other text), and keeps the records in the order of the revision table.
C27_OneRecordPerCreation ==
    (pc = "list_matching") =>
        /\ Len(nscreated) = Cardinality(CreatingRevisions)
        /\ \A k \in 1..Len(nscreated) :
              \E i \in CreatingRevisions :
                 /\ Cardinality({ j \in CreatingRevisions : j < i }) = k - 1
                 /\ DOMAIN nscreated[k] = { "revid", "name", "user" }
                 /\ nscreated[k].revid = rev_table[i].revid
                 /\ nscreated[k].user = rev_table[i].user
                 /\ nscreated[k].name \in NamesCreatedBy(rev_table[i].comment)
                 /\ \A n \in NamesCreatedBy(rev_table[i].comment) :
                       Len(n) <= Len(nscreated[k].name)

\* a creation, a summary that quotes the pattern after other text, and a
\* creation with text after the pattern: two records, in table order
C27_Witness ==
    /\ pc = "list_matching"
    /\ Len(rev_table) = 3
    /\ CreatingRevisions = { 1, 3 }
    /\ Closing \in SeqToSet(rev_table[2].comment)
    /\ rev_table[3].comment[Len(rev_table[3].comment)] # Closing
    /\ Len(nscreated) = 2
    /\ nscreated[1].revid = rev_table[1].revid
    /\ nscreated[2].revid = rev_table[3].revid
    /\ nscreated[1].name # nscreated[2].name

\* C28: list_matching never emits the same creation record twice: when the
\* removed titles are pairwise distinct strings, each creation record appears
\* at most once in the output.
C28_NoRecordTwice ==
    (pc = "search_archives" /\ NoRepeat(archived_sections)) =>
        \A j \in 1..Len(nscreated) : Count(thread_matched, nscreated[j]) <= 1

\* ---------------------------------------------- search_archives_for_section
\* the sections (page, m-th section of the page) with the trimmed name of the
\* i-th title, each candidate page taken once
SectionsOnPages(i) ==
    { pm \in UNION { { << p, m >> : m \in 1..Len(archive_contents[p]) } :
                     p \in SeqToSet(links) } :
        Strip(archive_contents[pm[1]][pm[2]].line) = Strip(thread_matched[i].name) }

\* C29: the result of search_archives_for_section for a title does not
\* depend on repeated entries in the candidate list: a title that occurs
\* exactly once among the distinct candidate pages is resolved to that page
\* and anchor, also when the page is listed more than once.
C29_RepeatedCandidatesIgnored ==
    SearchDone =>
        \A i \in 1..Len(thread_matched) :
            Cardinality(SectionsOnPages(i)) = 1 =>
                \E pm \in SectionsOnPages(i) :
                    list_of_archive_links[i]
                      = FullArchiveLink(pm[1], archive_contents[pm[1]][pm[2]].anchor)

\* C30: whenever search_archives_for_section returns a resolved link 'P#a'
\* for a title, P is a candidate page whose fetched section list contains a
\* section with that trimmed title and the anchor a; the page is never one
\* carried over from the search of an earlier title or from a candidate page
\* that has no match.
C30_ResolvedPageHoldsTheSection ==
    SearchDone =>
        \A i \in 1..Len(list_of_archive_links) :
            list_of_archive_links[i] # NoLink =>
                LET P == list_of_archive_links[i][1]
                    a == list_of_archive_links[i][3]
                IN  /\ Len(list_of_archive_links[i]) = 3
                    /\ list_of_archive_links[i][2] = "#"
                    /\ P \in SeqToSet(links)
                    /\ \E m \in 1..Len(archive_contents[P]) :
                          /\ archive_contents[P][m].anchor = a
                          /\ Strip(archive_contents[P][m].line)
                                = Strip(thread_matched[i].name)

\* the first title is resolved on the second candidate page, the second
\* title on the first page, which is followed by a page without match
C30_Witness ==
    /\ SearchDone
    /\ Len(links) = 2
    /\ links[1] # links[2]
    /\ Len(thread_matched) = 2
    /\ Len(list_of_archive_links) = 2
    /\ list_of_archive_links[1] # NoLink
    /\ list_of_archive_links[2] # NoLink
    /\ list_of_archive_links[1][1] = links[2]
    /\ list_of_archive_links[2][1] = links[1]
    /\ find_section_anchor(archive_contents[links[2]], thread_matched[2].name) = <<>>

====
